---- MODULE Spec2Model ----
(***************************************************************************)
(* A model of split.py: the per-file pipeline of process_one_wav           *)
(* (silence phrases -> split_by_low_volume -> merge_chunks -> export) and  *)
(* the batch dispatch of main through multiprocessing.Pool.map.            *)
(*                                                                         *)
(* Audio is modelled by its number of frames and its frame rate, the two   *)
(* quantities len(AudioSegment) is computed from.  Slicing, fade_in,       *)
(* fade_out, silent and + are modelled by what pydub 0.25.1 does to the    *)
(* frame count: a fade_out on audio shorter than the fade re-reads frames  *)
(* and lengthens it, silent() is 11025 Hz audio, and + converts both sides *)
(* to the higher frame rate.  A segment also carries the range [lo, hi) of *)
(* the phrase it was cut from, so that order and coverage can be stated.   *)
(* The RMS values that find_lowest_volume_split reads are an input: one    *)
(* value per scanned 50 ms window, drawn from a family of profiles at      *)
(* every cut.                                                              *)
(***************************************************************************)
EXTENDS Integers, Sequences, FiniteSets, TLC

VARIABLES
  cfg,       \* [min_sec, max_sec, fade_ms, gap_ms]: the parameters bound by functools.partial
  rate,      \* frame rate of the file decoded by AudioSegment.from_wav
  phrases,   \* durations (ms) of the phrases returned by split_into_phrases
  starts,    \* position (ms) in the file's audio at which each phrase starts
  path,      \* the file process_one_wav was called on
  pc,        \* position in process_one_wav: "phrases", "split", "merge", "export", "done"
  pi,        \* index of the phrase the loop of lines 158-163 is at
  stack,     \* call stack of split_by_low_volume: frames [remaining, result]
  splitted,  \* the list `splitted` of process_one_wav
  mi,        \* index of the chunk the loop of merge_chunks is at
  buffer,    \* the accumulation buffer of merge_chunks
  result,    \* the list `result` of merge_chunks (final_chunks)
  xi,        \* index i of the export loop of lines 176-180
  listing,   \* os.listdir(input_dir): a sequence of file names [stem, ext]
  workers,   \* number of pool processes
  bad,       \* the files AudioSegment.from_wav cannot decode
  poolpc,    \* position in main: "start", "map", "raised", "finished", "nofiles"
  taskq,     \* the pool's task queue: batches (sequences) of files
  wstate,    \* per worker: the batch it runs, the position in it, the export loop
  attempted, \* files on which process_one_wav was called
  written    \* the export log: records [path, by]

pipeVars == <<cfg, rate, phrases, starts, path, pc, pi, stack, splitted, mi, buffer, result, xi>>
poolVars == <<listing, workers, bad, poolpc, taskq, wstate, attempted>>
vars == <<cfg, rate, phrases, starts, path, pc, pi, stack, splitted, mi, buffer, result, xi,
          listing, workers, bad, poolpc, taskq, wstate, attempted, written>>

(***************************************************************************)
(* Program constants                                                       *)
(***************************************************************************)
SearchRangeMs == 1000
StepMs == 50
IdealPadSec == 4
MsPerSec == 1000
DefaultMinSec == 1
DefaultMaxSec == 5
DefaultFadeMs == 10
DefaultGapMs == 100
DefaultMinSilenceLen == 300
(* AudioSegment.silent is called without frame_rate: pydub's default. *)
SilentFrameRate == 11025

(***************************************************************************)
(* Bounds of the model                                                     *)
(***************************************************************************)
MaxPhrases == 3
NumDips == 2
MaxPieces == 8
MaxDepth == 3

Max(a, b) == IF a >= b THEN a ELSE b
Min(a, b) == IF a <= b THEN a ELSE b

(***************************************************************************)
(* Inputs                                                                  *)
(***************************************************************************)
(* The values main reads with int(input()): no range is checked there. *)
Cfg(min_sec, max_sec, fade_ms, gap_ms) ==
  [min_sec |-> min_sec, max_sec |-> max_sec, fade_ms |-> fade_ms, gap_ms |-> gap_ms]
DefaultCfg == Cfg(DefaultMinSec, DefaultMaxSec, DefaultFadeMs, DefaultGapMs)
Configs == {DefaultCfg, Cfg(1, 5, DefaultFadeMs, 0), Cfg(1, 3, DefaultFadeMs, 100),
            Cfg(5, 10, DefaultFadeMs, 100), Cfg(1, 2, DefaultFadeMs, 0),
            Cfg(1, 0, DefaultFadeMs, 100)}

(* Frame rates of the input file. *)
Rates == {8000, 44100}

(* Phrase durations; a phrase is at most twice max_len, or 1-2 ms. *)
PhraseLens == {1, 2, 500, 1000, 3000, 4500, 7000}
AllowedLens(c) ==
  {l \in PhraseLens : l <= 2 \/ l <= 2 * c.max_sec * MsPerSec}
BoundedLists(c) == UNION {[1..n -> AllowedLens(c)] : n \in 0..MaxPhrases}

(* A phrase is audio[start:end] for a range split_on_silence found.  A     *)
(* layout of the file's audio gives the silence before the first phrase    *)
(* and the silence, at least min_silence_len, between two phrases.         *)
Layout(lead, silence) == [lead |-> lead, silence |-> silence]
Layouts == {Layout(0, DefaultMinSilenceLen), Layout(309, 409)}
RECURSIVE StartsFrom(_, _, _)
StartsFrom(lens, at, silence) ==
  IF lens = <<>>
    THEN <<>>
    ELSE <<at>> \o StartsFrom(Tail(lens), at + Head(lens) + silence, silence)
StartLists(lens) == {StartsFrom(lens, l.lead, l.silence) : l \in Layouts}

ScenarioB == <<12000>>
ScenarioC == <<200, 200, 200, 200, 200>>
ScenarioD == <<300>>
Scenarios == {ScenarioB, ScenarioC, ScenarioD}

(* RMS profiles: rms[w] is seg.rms of the w-th scanned window. *)
NumWindows == SearchRangeMs \div StepMs
Uniform == [w \in 1..NumWindows |-> 1]
Dip(k) == [w \in 1..NumWindows |-> IF w = k THEN 0 ELSE 1]
Quiet(k) == [w \in 1..NumWindows |-> IF w >= k THEN 0 ELSE 1]
DipWindows == {NumWindows - (k - 1) * 7 : k \in 1..NumDips} \cap (1..NumWindows)
CoarseProfiles == {Uniform} \cup {Dip(k) : k \in DipWindows}
AllProfiles == {Uniform} \cup {Dip(k) : k \in 1..NumWindows}
                 \cup {Quiet(k) : k \in 1..NumWindows}
RmsInf == 2

(***************************************************************************)
(* AudioSegment, by frame count and frame rate.  An audio value is a       *)
(* record with fields n (frames) and rate; segments and buffers carry      *)
(* further fields, which the operations below leave alone.                 *)
(***************************************************************************)
(* int(x / y) for y > 0: Python's int() truncates towards zero. *)
TruncDiv(x, y) == IF x >= 0 THEN x \div y ELSE -((-x) \div y)

(* int(frame_count(ms=ms)) = int(ms * (frame_rate / 1000.0)). *)
FrameCount(ms, r) == TruncDiv(ms * r, MsPerSec)

(* len(AudioSegment) = round(1000 * frame_count / frame_rate); round()     *)
(* sends a tie to the even neighbour.                                      *)
LenMs(n, r) ==
  LET q == (MsPerSec * n) \div r
      m == (MsPerSec * n) % r
  IN IF 2 * m < r THEN q
     ELSE IF 2 * m > r THEN q + 1
     ELSE IF q % 2 = 0 THEN q ELSE q + 1
SegLen(s) == LenMs(s.n, s.rate)

(* Number of items data[a:b] selects from n items (Python slice rules). *)
PyIndex(n, a) == IF a < 0 THEN Max(0, n + a) ELSE Min(a, n)
PySliceCount(n, a, b) == Max(0, PyIndex(n, b) - PyIndex(n, a))

(* Frames of seg[s:e], s and e in ms and already capped by len(seg): a     *)
(* negative position counts from the end, and frames missing at the end    *)
(* (len rounds up) are filled in when the slice holds any data.            *)
SliceFrames(n, r, s, e) ==
  LET L == LenMs(n, r)
      a == FrameCount(IF s < 0 THEN L + s ELSE s, r)
      b == FrameCount(IF e < 0 THEN L + e ELSE e, r)
      got == PySliceCount(n, a, b)
  IN IF got > 0 /\ b - a > got THEN b - a ELSE got

(* The i-th phrase, audio[start:end]: the frames between the two positions. *)
Whole(i) == [ph |-> i, lo |-> 0, hi |-> phrases[i],
             n |-> FrameCount(starts[i] + phrases[i], rate)
                     - FrameCount(starts[i], rate),
             rate |-> rate]
(* remaining[:pos] and remaining[pos:] (lines 66-67), before the fades. *)
SliceTo(s, pos) ==
  [s EXCEPT !.hi = s.lo + Min(Max(pos, 0), s.hi - s.lo),
            !.n = SliceFrames(s.n, s.rate, 0, Min(pos, SegLen(s)))]
SliceFrom(s, pos) ==
  [s EXCEPT !.lo = s.lo + Min(Max(pos, 0), s.hi - s.lo),
            !.n = SliceFrames(s.n, s.rate, Min(pos, SegLen(s)), SegLen(s))]

(* get_frame(idx) returns a frame for these indices and nothing for the    *)
(* others: data[idx*w : idx*w + w] with a negative idx reads from the end. *)
ValidFrame(n, idx) == IF idx >= 0 THEN idx < n ELSE (-n <= idx /\ idx <= -2)

(* Number of frames the fade loop visits: int(frame_count(end) -           *)
(* frame_count(start)), a difference of floats.  At 44100 Hz with the      *)
(* default fade it falls one short of 441 for these durations (ms).        *)
FadeShort == {19, 28, 33, 51, 56, 97, 102, 189, 194, 373, 378, 746, 751,
              1487, 1492, 2974, 2979, 5948, 5953, 11891, 11896}
FadeFrames(L, r, f) ==
  IF r = 44100 /\ f = DefaultFadeMs /\ L \in FadeShort
    THEN FrameCount(f, r) - 1
    ELSE FrameCount(f, r)

(* seg.fade_out(f), f <= 100: seg[:start] followed by the frames           *)
(* get_frame(int(frame_count(start) + i)) returns, start = len(seg) - f.   *)
(* When len(seg) < f, start is negative and frames are read twice.         *)
FadeOut(a, f) ==
  LET L == LenMs(a.n, a.rate)
      start == L - f
      before == SliceFrames(a.n, a.rate, 0, Min(start, L))
      cnt == FadeFrames(L, a.rate, f)
      faded == IF start >= 0
                 THEN Min(cnt, Max(0, a.n - FrameCount(start, a.rate)))
                 ELSE Cardinality({i \in 0..(cnt - 1) :
                        ValidFrame(a.n, TruncDiv(start * a.rate + MsPerSec * i,
                                                 MsPerSec))})
  IN [a EXCEPT !.n = before + faded]

(* seg.fade_in(f), f <= 100: the first frame_count(f) frames that exist,   *)
(* followed by seg[f:].                                                    *)
FadeIn(a, f) ==
  LET L == LenMs(a.n, a.rate)
      faded == Min(FrameCount(f, a.rate), a.n)
      after == SliceFrames(a.n, a.rate, Min(f, L), L)
  IN [a EXCEPT !.n = faded + after]

RECURSIVE Gcd(_, _)
Gcd(x, y) == IF y = 0 THEN x ELSE Gcd(y, x % y)

(* Frames of set_frame_rate(o) on n frames at rate i (audioop.ratecv). *)
Ratecv(n, i, o) ==
  IF n = 0 \/ i = o
    THEN n
    ELSE ((n - 1) * (o \div Gcd(i, o))) \div (i \div Gcd(i, o)) + 1

(* a + b: both sides are converted to the higher frame rate. *)
Add(a, b) ==
  LET r == Max(a.rate, b.rate)
  IN [n |-> Ratecv(a.n, a.rate, r) + Ratecv(b.n, b.rate, r), rate |-> r]

(* AudioSegment.silent(duration=d): int(11025 * (d / 1000.0)) frames, a    *)
(* product of floats that falls one short of the exact value for these d   *)
(* (d <= 12000); no frame for d <= 0.                                      *)
SilentShort == {1400, 2280, 2760, 2800, 4520, 4560, 4600, 5520, 5560, 5600,
                8040, 8120, 8200, 9040, 9120, 9200, 10040, 10120, 10200,
                11040, 11120, 11200}
Silent(d) ==
  [n |-> IF d > 0
           THEN FrameCount(d, SilentFrameRate) - (IF d \in SilentShort THEN 1 ELSE 0)
           ELSE 0,
   rate |-> SilentFrameRate]

(* AudioSegment.empty() (line 96) and `buffer = ch` (lines 100, 111, 118). *)
EmptyBuffer == [n |-> 0, rate |-> 1, segs |-> <<>>]
AsBuffer(s) == [n |-> s.n, rate |-> s.rate, segs |-> <<s>>]

MaxLen(c) == c.max_sec * MsPerSec
MinLen(c) == c.min_sec * MsPerSec
IdealPadMs == IdealPadSec * MsPerSec

(***************************************************************************)
(* find_lowest_volume_split                                                *)
(***************************************************************************)
RECURSIVE Scan(_, _, _, _, _, _)
Scan(i, start_search, end_search, min_rms, best_pos, rms) ==
  IF i < end_search
    THEN LET r == rms[(i - start_search) \div StepMs + 1]
         IN IF r < min_rms
              THEN Scan(i + StepMs, start_search, end_search, r,
                        i + StepMs \div 2, rms)
              ELSE Scan(i + StepMs, start_search, end_search, min_rms,
                        best_pos, rms)
    ELSE best_pos

FindLowestVolumeSplit(length, rms) ==
  IF length <= SearchRangeMs
    THEN length \div 2
    ELSE LET mid == length \div 2
             start_search == Max(0, mid - SearchRangeMs \div 2)
             end_search == Min(length, mid + SearchRangeMs \div 2)
         IN Scan(start_search, start_search, end_search, RmsInf, mid, rms)

(***************************************************************************)
(* split_by_low_volume, with its recursion as an explicit call stack       *)
(***************************************************************************)
Top == stack[Len(stack)]
TooLong(s, c) == SegLen(s) > MaxLen(c)

(* Line 70: `if len(left) > max_len`, the test that starts the recursion. *)
LeftNeverTooLong(left, c) == FALSE
LeftTooLong(left, c) == SegLen(left) > MaxLen(c)

(* Lines 77-78: the remainder is appended and the list returned. *)
ReturnedNoTail(frame) == frame.result
Returned(frame) == Append(frame.result, frame.remaining)

(* One iteration of the while loop (lines 64-75).  When left is too long   *)
(* the recursive call is pushed; the caller's `remaining` already holds    *)
(* right, which nothing reads before the call returns.  The loop and the   *)
(* recursion are followed up to MaxPieces pieces and MaxDepth frames.      *)
SplitIter(profiles) ==
  /\ pc = "split"
  /\ TooLong(Top.remaining, cfg)
  /\ Len(Top.result) < MaxPieces
  /\ \E rms \in profiles :
       LET rem == Top.remaining
           split_pos == FindLowestVolumeSplit(SegLen(rem), rms)
           left == FadeOut(SliceTo(rem, split_pos), cfg.fade_ms)
           right == FadeIn(SliceFrom(rem, split_pos), cfg.fade_ms)
           d == Len(stack)
       IN IF LeftTooLong(left, cfg)
            THEN /\ d < MaxDepth
                 /\ stack' = Append([stack EXCEPT ![d].remaining = right],
                                    [remaining |-> left, result |-> <<>>])
            ELSE stack' = [stack EXCEPT ![d].remaining = right,
                                        ![d].result = Append(@, left)]
  /\ UNCHANGED <<cfg, rate, phrases, starts, path, pc, pi, splitted, mi, buffer, result, xi>>
  /\ UNCHANGED <<poolVars, written>>

(* The while loop ends (or line 59 returns [ch]): append the remainder and *)
(* return, into the caller's result.extend (line 71) or into               *)
(* splitted.extend (line 161).                                             *)
SplitReturn ==
  /\ pc = "split"
  /\ ~TooLong(Top.remaining, cfg)
  /\ LET d == Len(stack)
         ret == Returned(Top)
     IN IF d > 1
          THEN /\ stack' = [SubSeq(stack, 1, d - 1) EXCEPT ![d - 1].result = @ \o ret]
               /\ UNCHANGED <<splitted, pi, pc>>
          ELSE /\ stack' = <<>>
               /\ splitted' = splitted \o ret
               /\ pi' = pi + 1
               /\ pc' = "phrases"
  /\ UNCHANGED <<cfg, rate, phrases, starts, path, mi, buffer, result, xi>>
  /\ UNCHANGED <<poolVars, written>>

(***************************************************************************)
(* process_one_wav: the loop over the phrases (lines 157-164)              *)
(***************************************************************************)
PhraseStep ==
  /\ pc = "phrases"
  /\ IF pi <= Len(phrases)
       THEN IF TooLong(Whole(pi), cfg)
              THEN /\ stack' = <<[remaining |-> Whole(pi), result |-> <<>>]>>
                   /\ pc' = "split"
                   /\ UNCHANGED <<splitted, pi>>
              ELSE /\ splitted' = Append(splitted, Whole(pi))
                   /\ pi' = pi + 1
                   /\ UNCHANGED <<stack, pc>>
       ELSE /\ pc' = "merge"
            /\ UNCHANGED <<stack, splitted, pi>>
  /\ UNCHANGED <<cfg, rate, phrases, starts, path, mi, buffer, result, xi>>
  /\ UNCHANGED <<poolVars, written>>

(***************************************************************************)
(* merge_chunks, fade_merge, pad_to_length                                 *)
(***************************************************************************)
(* Line 132: ch1_faded + gap + ch2_faded, added from the left. *)
FadeMergeSwapped(b, s, fade_ms, gap_ms) ==
  LET m == Add(Add(FadeOut(b, fade_ms), Silent(gap_ms)), FadeIn(s, fade_ms))
  IN [n |-> m.n, rate |-> m.rate, segs |-> <<s>> \o b.segs]
FadeMerge(b, s, fade_ms, gap_ms) ==
  LET m == Add(Add(FadeOut(b, fade_ms), Silent(gap_ms)), FadeIn(s, fade_ms))
  IN [n |-> m.n, rate |-> m.rate, segs |-> Append(b.segs, s)]

PadToLength(b, target_ms) ==
  LET needed == target_ms - SegLen(b)
      m == Add(b, Silent(needed))
  IN IF needed > 0 THEN [b EXCEPT !.n = m.n, !.rate = m.rate] ELSE b

FitsShort(b, s, c) == SegLen(b) + SegLen(s) + c.gap_ms <= MaxLen(c)
FitsLong(b, s, c) == SegLen(b) + SegLen(s) + c.gap_ms <= MaxLen(c)

(* A flushed chunk: `raw` is the buffer's duration before padding, `tail`  *)
(* tells the flush after the loop from a flush inside it.                  *)
Chunk(b, raw, tail) ==
  [n |-> b.n, rate |-> b.rate, segs |-> b.segs, raw |-> raw, tail |-> tail]

MergeStep ==
  /\ pc = "merge"
  /\ mi <= Len(splitted)
  /\ LET ch == splitted[mi]
     IN IF SegLen(buffer) = 0
          THEN /\ buffer' = AsBuffer(ch)
               /\ UNCHANGED result
          ELSE IF SegLen(buffer) < MinLen(cfg)
            THEN IF FitsShort(buffer, ch, cfg)
                   THEN /\ buffer' = FadeMerge(buffer, ch, cfg.fade_ms, cfg.gap_ms)
                        /\ UNCHANGED result
                   ELSE LET padded == IF SegLen(buffer) < MinLen(cfg)
                                        THEN PadToLength(buffer, IdealPadMs)
                                        ELSE buffer
                        IN /\ result' = Append(result,
                                               Chunk(padded, SegLen(buffer), FALSE))
                           /\ buffer' = AsBuffer(ch)
            ELSE IF FitsLong(buffer, ch, cfg)
                   THEN /\ buffer' = FadeMerge(buffer, ch, cfg.fade_ms, cfg.gap_ms)
                        /\ UNCHANGED result
                   ELSE /\ result' = Append(result,
                                            Chunk(buffer, SegLen(buffer), FALSE))
                        /\ buffer' = AsBuffer(ch)
  /\ mi' = mi + 1
  /\ UNCHANGED <<cfg, rate, phrases, starts, path, pc, pi, stack, splitted, xi>>
  /\ UNCHANGED <<poolVars, written>>

MergeFinish ==
  /\ pc = "merge"
  /\ mi > Len(splitted)
  /\ IF SegLen(buffer) > 0
       THEN LET padded == IF SegLen(buffer) < MinLen(cfg)
                            THEN PadToLength(buffer, IdealPadMs)
                            ELSE buffer
            IN result' = Append(result, Chunk(padded, SegLen(buffer), TRUE))
       ELSE UNCHANGED result
  /\ pc' = "export"
  /\ UNCHANGED <<cfg, rate, phrases, starts, path, pi, stack, splitted, mi, buffer, xi>>
  /\ UNCHANGED <<poolVars, written>>

(***************************************************************************)
(* Output names                                                            *)
(***************************************************************************)
Name(stem, ext) == [stem |-> stem, ext |-> ext]
(* Line 151: os.path.splitext(os.path.basename(path))[0]. *)
Base(f) == f.stem
(* Lines 177-178: <output_dir>/<base>_partNNN.wav, NNN = i from 1. *)
OutPath(f, i) == [base |-> Base(f), part |-> i]

(* One iteration of the loop of lines 176-180: chunk xi is exported under  *)
(* its numbered name; after the last one process_one_wav returns.          *)
Export ==
  /\ pc = "export"
  /\ IF xi <= Len(result)
       THEN /\ written' = written \cup {[path |-> OutPath(path, xi), by |-> path]}
            /\ xi' = xi + 1
            /\ UNCHANGED pc
       ELSE /\ pc' = "done"
            /\ UNCHANGED <<written, xi>>
  /\ UNCHANGED <<cfg, rate, phrases, starts, path, pi, stack, splitted, mi, buffer, result>>
  /\ UNCHANGED poolVars

(***************************************************************************)
(* The per-file pipeline                                                   *)
(***************************************************************************)
InFile == Name("in", "wav")

PoolIdle ==
  /\ listing = <<InFile>>
  /\ workers = 1
  /\ bad = {}
  /\ poolpc = "idle"
  /\ taskq = <<>>
  /\ wstate = <<>>
  /\ attempted = {InFile}
  /\ written = {}

PipeStart ==
  /\ pc = "phrases"
  /\ pi = 1
  /\ stack = <<>>
  /\ splitted = <<>>
  /\ mi = 1
  /\ buffer = EmptyBuffer
  /\ result = <<>>
  /\ xi = 1

Init ==
  /\ cfg \in Configs
  /\ rate \in Rates
  /\ phrases \in BoundedLists(cfg) \cup (IF cfg = DefaultCfg THEN Scenarios ELSE {})
  /\ starts \in StartLists(phrases)
  /\ path = InFile
  /\ PipeStart
  /\ PoolIdle

Next ==
  \/ PhraseStep
  \/ SplitIter(CoarseProfiles)
  \/ SplitReturn
  \/ MergeStep
  \/ MergeFinish
  \/ Export

Spec == Init /\ [][Next]_vars

(***************************************************************************)
(* Scenario B, under every RMS profile: one 12000 ms phrase, max_sec = 5,  *)
(* alone or beside a short phrase.                                         *)
(***************************************************************************)
ShortPhrase == <<500>>
InitB ==
  /\ cfg = DefaultCfg
  /\ rate \in Rates
  /\ phrases \in {ScenarioB, ShortPhrase \o ScenarioB, ScenarioB \o ShortPhrase}
  /\ starts \in StartLists(phrases)
  /\ path = InFile
  /\ PipeStart
  /\ PoolIdle

NextB ==
  \/ PhraseStep
  \/ SplitIter(AllProfiles)
  \/ SplitReturn
  \/ MergeStep
  \/ MergeFinish
  \/ Export

SpecB == InitB /\ [][NextB]_vars

(***************************************************************************)
(* main: the '.wav' filter and the dispatch through Pool.map               *)
(* (lines 280-306).  A file name is [stem, ext]; str.lower acts on ext.    *)
(***************************************************************************)
MaxWorkers == 2

Lower(e) == IF e = "WAV" THEN "wav" ELSE e
Names == {Name("a", "wav"), Name("a", "WAV"), Name("a", "txt"),
          Name("b", "wav"), Name("b", "WAV"), Name("c", "wav")}
Range(seq) == {seq[k] : k \in 1..Len(seq)}

(* os.listdir returns the names of the directory in arbitrary order. *)
Orders(S) ==
  {s \in [1..Cardinality(S) -> S] :
     \A i, j \in 1..Cardinality(S) : s[i] = s[j] => i = j}
Listings == UNION {Orders(S) : S \in SUBSET Names}

(* Line 282: f.lower().endswith(".wav"). *)
IsWav(f) == Lower(f.ext) = "wav"
WavFiles(dir) == SelectSeq(dir, IsWav)

(* The phrases of each file of the directory, and the number of chunks     *)
(* process_one_wav exports for them under the default settings.            *)
TwoLong == <<3000, 3000>>
Content(f) ==
  IF f = Name("a", "wav") THEN ScenarioB
  ELSE IF f = Name("a", "WAV") THEN ScenarioD
  ELSE IF f = Name("b", "wav") THEN ScenarioC
  ELSE IF f = Name("b", "WAV") THEN TwoLong
  ELSE <<>>
NumChunks(f) ==
  IF Content(f) = ScenarioB THEN 4
  ELSE IF Content(f) = TwoLong THEN 2
  ELSE IF Content(f) = <<>> THEN 0
  ELSE 1

(* Pool.map's default chunksize: divmod(len(iterable), 4 * processes),     *)
(* rounded up; the iterable is cut into consecutive batches of that size.  *)
ChunkSize(n, procs) ==
  IF n % (procs * 4) = 0 THEN n \div (procs * 4) ELSE n \div (procs * 4) + 1
RECURSIVE Batches(_, _)
Batches(files, size) ==
  IF files = <<>>
    THEN <<>>
    ELSE <<SubSeq(files, 1, Min(size, Len(files)))>>
           \o Batches(SubSeq(files, Min(size, Len(files)) + 1, Len(files)), size)

IdleWorker == [batch |-> <<>>, pos |-> 1, exporting |-> FALSE, xi |-> 1]
IsIdle(w) == wstate[w].pos > Len(wstate[w].batch)

(* Lines 280-306 up to the call of pool.map. *)
MainDispatch ==
  /\ poolpc = "start"
  /\ LET wav_files == WavFiles(listing)
     IN IF wav_files = <<>>
          THEN /\ poolpc' = "nofiles"
               /\ UNCHANGED taskq
          ELSE /\ poolpc' = "map"
               /\ taskq' = Batches(wav_files, ChunkSize(Len(wav_files), workers))
  /\ UNCHANGED <<listing, workers, bad, wstate, attempted, written>>
  /\ UNCHANGED pipeVars

(* An idle worker process takes the next batch from the task queue. *)
WorkerTake(w) ==
  /\ poolpc = "map"
  /\ IsIdle(w)
  /\ taskq # <<>>
  /\ wstate' = [wstate EXCEPT ![w] = [IdleWorker EXCEPT !.batch = Head(taskq)]]
  /\ taskq' = Tail(taskq)
  /\ UNCHANGED <<listing, workers, bad, poolpc, attempted, written>>
  /\ UNCHANGED pipeVars

(* The worker calls process_one_wav on the next file of its batch          *)
(* (mapstar: list(map(func, batch))).  from_wav raising (line 152) leaves  *)
(* process_one_wav and the batch: nothing in split.py catches it.          *)
(* Otherwise the file is cut into its chunks and the export loop starts.   *)
WorkerCall(w) ==
  /\ poolpc = "map"
  /\ ~IsIdle(w)
  /\ ~wstate[w].exporting
  /\ LET f == wstate[w].batch[wstate[w].pos]
     IN /\ attempted' = attempted \cup {f}
        /\ IF f \in bad
             THEN wstate' = [wstate EXCEPT ![w] = IdleWorker]
             ELSE wstate' = [wstate EXCEPT ![w].exporting = TRUE, ![w].xi = 1]
  /\ UNCHANGED <<listing, workers, bad, poolpc, taskq, written>>
  /\ UNCHANGED pipeVars

(* One iteration of the worker's export loop (lines 176-180), while the    *)
(* other workers run; after the last chunk process_one_wav returns and     *)
(* the worker moves to the next file of its batch.                         *)
WorkerExport(w) ==
  /\ poolpc = "map"
  /\ wstate[w].exporting
  /\ LET f == wstate[w].batch[wstate[w].pos]
         i == wstate[w].xi
     IN IF i <= NumChunks(f)
          THEN /\ written' = written \cup {[path |-> OutPath(f, i), by |-> f]}
               /\ wstate' = [wstate EXCEPT ![w].xi = i + 1]
          ELSE /\ wstate' = [wstate EXCEPT ![w].exporting = FALSE,
                                           ![w].pos = @ + 1]
               /\ UNCHANGED written
  /\ UNCHANGED <<listing, workers, bad, poolpc, taskq, attempted>>
  /\ UNCHANGED pipeVars

(* pool.map returns once every batch is done, and re-raises the first      *)
(* exception of a worker, if any (line 306).                               *)
MainJoin ==
  /\ poolpc = "map"
  /\ taskq = <<>>
  /\ \A w \in 1..workers : IsIdle(w)
  /\ poolpc' = IF attempted \cap bad # {} THEN "raised" ELSE "finished"
  /\ UNCHANGED <<listing, workers, bad, taskq, wstate, attempted, written>>
  /\ UNCHANGED pipeVars

InitPool ==
  /\ listing \in Listings
  /\ workers \in 1..MaxWorkers
  /\ bad \in {b \in SUBSET Range(WavFiles(listing)) : Cardinality(b) <= 1}
  /\ poolpc = "start"
  /\ taskq = <<>>
  /\ wstate = [w \in 1..workers |-> IdleWorker]
  /\ attempted = {}
  /\ written = {}
  /\ cfg = DefaultCfg
  /\ rate = SilentFrameRate
  /\ phrases = <<>>
  /\ starts = <<>>
  /\ path = InFile
  /\ PipeStart

NextPool ==
  \/ MainDispatch
  \/ \E w \in 1..workers : WorkerTake(w)
  \/ \E w \in 1..workers : WorkerCall(w)
  \/ \E w \in 1..workers : WorkerExport(w)
  \/ MainJoin

SpecPool == InitPool /\ [][NextPool]_vars

(***************************************************************************)
(* Properties of the per-file pipeline                                     *)
(***************************************************************************)
Pieces(i) == SelectSeq(splitted, LAMBDA s : s.ph = i)
Merged == pc \in {"merge", "export", "done"}
Padded(chunk) == SegLen(chunk) # chunk.raw

RECURSIVE SumLens(_)
SumLens(segs) == IF segs = <<>> THEN 0 ELSE SegLen(Head(segs)) + SumLens(Tail(segs))

RECURSIVE FlatSegs(_)
FlatSegs(chunks) ==
  IF chunks = <<>> THEN <<>> ELSE Head(chunks).segs \o FlatSegs(Tail(chunks))

(* C1: every chunk returned by merge_chunks has a duration within          *)
(* [min_sec*1000, max_sec*1000], unless the whole input of the file is     *)
(* shorter than the padding target, and then the chunk lasts               *)
(* ideal_pad_sec*1000 ms.                                                  *)
C1_Window ==
  pc = "done" =>
    \A k \in 1..Len(result) :
      \/ (MinLen(cfg) <= SegLen(result[k]) /\ SegLen(result[k]) <= MaxLen(cfg))
      \/ (SumLens(splitted) < IdealPadMs /\ SegLen(result[k]) = IdealPadMs)

(* C2: every sub-segment that split_by_low_volume returns (in a frame's    *)
(* result, or already extended into `splitted`) lasts at most              *)
(* max_sec*1000 ms.                                                        *)
C2_Bounded ==
  /\ \A k \in 1..Len(splitted) : SegLen(splitted[k]) <= MaxLen(cfg)
  /\ \A d \in 1..Len(stack) : \A k \in 1..Len(stack[d].result) :
        SegLen(stack[d].result[k]) <= MaxLen(cfg)

C2_Witness ==
  /\ pc = "merge"
  /\ phrases = ScenarioB
  /\ Len(splitted) = 4
  /\ SegLen(splitted[1]) + SegLen(splitted[2]) > MaxLen(cfg)

(* C3: every iteration of the while loop of split_by_low_volume strictly   *)
(* shortens `remaining`, and a recursive call is on a strictly shorter     *)
(* `left`: the cut lies strictly inside the segment.                       *)
C3_Step ==
  (pc = "split" /\ TooLong(Top.remaining, cfg) /\ stack' # stack) =>
    LET d == Len(stack)
    IN /\ SegLen(stack'[d].remaining) < SegLen(stack[d].remaining)
       /\ Len(stack') > d =>
            SegLen(stack'[d + 1].remaining) < SegLen(stack[d].remaining)
C3_Progress == [][C3_Step]_vars

(* C4, as claimed: a 12000 ms segment with max_sec = 5 is returned as      *)
(* exactly 3 sub-segments, each at most 5000 ms.                           *)
C4_ThreePieces ==
  Merged =>
    \A i \in 1..Len(phrases) :
      <<phrases[i]>> = ScenarioB =>
        /\ Len(Pieces(i)) = 3
        /\ \A k \in 1..Len(Pieces(i)) : SegLen(Pieces(i)[k]) <= MaxLen(cfg)

(* C4, as amended: a 12000 ms segment with max_sec = 5 is returned as      *)
(* exactly 4 sub-segments, each at most 5000 ms, under every RMS profile.  *)
C4_FourPieces ==
  Merged =>
    \A i \in 1..Len(phrases) :
      <<phrases[i]>> = ScenarioB =>
        /\ Len(Pieces(i)) = 4
        /\ \A k \in 1..Len(Pieces(i)) : SegLen(Pieces(i)[k]) <= MaxLen(cfg)

C4_Witness ==
  /\ pc = "done"
  /\ phrases = ScenarioB
  /\ cfg.max_sec = DefaultMaxSec
  /\ Len(splitted) = 4

(* C5: a buffer flushed while below min_sec*1000 ms becomes a chunk of     *)
(* exactly ideal_pad_sec*1000 ms, hence no chunk is shorter than           *)
(* min_sec*1000 ms.                                                        *)
C5_PadExact ==
  \A k \in 1..Len(result) :
    /\ result[k].raw < MinLen(cfg) => SegLen(result[k]) = IdealPadMs
    /\ SegLen(result[k]) >= MinLen(cfg)

(* C7: with a non-empty buffer, the incoming segment is merged exactly     *)
(* when len(buffer) + len(s) + gap_ms <= max_sec*1000, whichever side of   *)
(* min_sec the buffer is on, and the merged buffer lasts                   *)
(* len(buffer) + len(s) + gap_ms; five 200 ms segments under the defaults  *)
(* end as one unpadded chunk of 1400 ms.                                   *)
C7_Step ==
  (pc = "merge" /\ mi <= Len(splitted) /\ SegLen(buffer) # 0 /\ mi' # mi) =>
    LET s == splitted[mi]
        total == SegLen(buffer) + SegLen(s) + cfg.gap_ms
    IN IF total <= MaxLen(cfg)
         THEN /\ SegLen(buffer') = total
              /\ buffer'.segs = Append(buffer.segs, s)
              /\ result' = result
         ELSE /\ buffer'.segs = <<s>>
              /\ Len(result') = Len(result) + 1
              /\ result'[Len(result')].segs = buffer.segs
C7_ScenarioC ==
  (pc = "done" /\ phrases = ScenarioC /\ cfg = DefaultCfg) =>
    /\ Len(result) = 1
    /\ SegLen(result[1]) = 1400
    /\ ~Padded(result[1])
C7_MergeRule == [][C7_Step]_vars /\ []C7_ScenarioC

(* C8: `splitted` is the phrases in order, each oversized phrase replaced  *)
(* in place by its sub-segments in temporal order, and the chunks are      *)
(* consecutive non-overlapping runs of `splitted`, in order.               *)
Contiguous(segs) ==
  /\ segs # <<>> => (segs[1].ph = 1 /\ segs[1].lo = 0)
  /\ \A k \in 1..Len(segs) : segs[k].lo <= segs[k].hi
  /\ \A k \in 1..(Len(segs) - 1) :
        LET s == segs[k]
            t == segs[k + 1]
        IN \/ (t.ph = s.ph /\ t.lo = s.hi)
           \/ (t.ph = s.ph + 1 /\ s.hi = phrases[s.ph] /\ t.lo = 0)
Complete(segs) ==
  IF phrases = <<>>
    THEN segs = <<>>
    ELSE /\ segs # <<>>
         /\ segs[Len(segs)].ph = Len(phrases)
         /\ segs[Len(segs)].hi = phrases[Len(phrases)]
C8_Order ==
  /\ Contiguous(splitted)
  /\ Merged => Complete(splitted)
  /\ pc = "merge" =>
        FlatSegs(result) \o buffer.segs = SubSeq(splitted, 1, mi - 1)
  /\ pc \in {"export", "done"} => FlatSegs(result) = splitted
  /\ \A k \in 1..Len(result) : result[k].segs # <<>>

C8_Witness ==
  /\ pc = "done"
  /\ Len(result) >= 2
  /\ Len(splitted) > Len(phrases)
  /\ \E k \in 1..Len(result) : Len(result[k].segs) >= 2

(* C9: every chunk other than a padded trailing chunk lasts at most        *)
(* max_sec*1000 + gap_ms, chunks padded inside the scan included.          *)
C9_Bound ==
  \A k \in 1..Len(result) :
    ~(result[k].tail /\ Padded(result[k])) =>
      SegLen(result[k]) <= MaxLen(cfg) + cfg.gap_ms

(***************************************************************************)
(* Properties of the batch                                                 *)
(***************************************************************************)
(* C6: when one file of the batch cannot be decoded, every other file of   *)
(* the batch is still processed, whatever the number of files, the worker  *)
(* count and the grouping of files into tasks.                             *)
C6_Isolated ==
  poolpc \in {"raised", "finished"} =>
    \A f \in Range(WavFiles(listing)) : f \in attempted

(* C10: two distinct input files never write the same output path.         *)
C10_Disjoint ==
  \A r1, r2 \in written : r1.path = r2.path => r1.by = r2.by

====
